---- MODULE Spec2Model ----
(***************************************************************************)
(* A model of extract_abstracts.py: the per-paper two-tier extraction      *)
(* (PaperExtractor.process_paper) and the batch run of main(): load,       *)
(* checkpoint merge, the processing loop with its periodic checkpoint and  *)
(* rate limit, the final output, the statistics and the checkpoint         *)
(* cleanup.  A process may be terminated from outside at any step and      *)
(* started again; the files on disk survive, the memory of the process     *)
(* does not.                                                               *)
(*                                                                         *)
(* Positions are 0-based as in the code (i, start_index); TLA+ sequences   *)
(* are 1-based, so the row at position i is RowAt(df, i+1)                 *)
(***************************************************************************)
EXTENDS Integers, Sequences, FiniteSets, TLC

(* main(): BATCH_SIZE = 50 *)
BATCH_SIZE == 50

(* main(): PaperExtractor(rate_limit=2) *)
RATE_LIMIT == 2

(* Bounds of the model: the length of the long source store (two full      *)
(* batches and a remainder) and of the short one (every combination of row *)
(* kinds).                                                                 *)
NumPapers == 102

SmallPapers == 2

(***************************************************************************)
(* Cell values.  A cell is a pair <<tag, id>>: a text is tagged by where   *)
(* it came from and carries the id of the paper it belongs to.             *)
(***************************************************************************)

(* pandas' missing value (float nan): what read_csv yields for an empty field *)
NaN == <<"NaN", 0>>

(* Python's None: an extractor's "absent" *)
None == <<"None", 0>>

(* the empty string '' *)
EmptyStr == <<"", 0>>

(* Python truthiness of a cell: None and '' are falsy; a non-empty string  *)
(* and float nan are truthy.                                               *)
Truthy(v) == v # None /\ v # EmptyStr

(* Python's `a or b` *)
OrElse(a, b) == IF Truthy(a) THEN a ELSE b

(***************************************************************************)
(* The world: what the remote servers answer.  A Link or DOI is a pair     *)
(* <<kind, id>>; the kind fixes the answer, the id tells papers apart.     *)
(***************************************************************************)

(* Kinds of Link: a page with abstract and keywords; with an abstract      *)
(* only; with keywords only; with an empty abstract and keywords; a fetch  *)
(* that fails; a row whose processing raises; a row whose processing       *)
(* raises in every process but the first.                                  *)
LinkKinds == {"ok", "nokw", "kwonly", "emptyabs", "err", "raise", "flaky"}

(* Kinds of DOI: one CrossRef has an abstract for, one it has none for *)
DoiKinds == {"ok", "err"}

(* extract_from_scopus: the pair (abstract, keywords) returned for a URL;  *)
(* every failure inside it is caught and gives (None, None).               *)
extract_from_scopus(url) ==
  CASE url[1] \in {"ok", "flaky", "raise"} -> <<(<<"scopus_abs", url[2]>>), (<<"kw", url[2]>>)>>
    [] url[1] = "nokw"     -> <<(<<"scopus_abs", url[2]>>), None>>
    [] url[1] = "kwonly"   -> <<None, (<<"kw", url[2]>>)>>
    [] url[1] = "emptyabs" -> <<EmptyStr, (<<"kw", url[2]>>)>>
    [] OTHER               -> <<None, None>>

(* extract_from_doi: (clean abstract, None) when CrossRef has a non-empty  *)
(* abstract, (None, None) otherwise.                                       *)
extract_from_doi(doi) ==
  IF doi[1] = "ok" THEN <<(<<"doi_abs", doi[2]>>), None>> ELSE <<None, None>>

(* Whether processing this row raises an exception that reaches the loop's *)
(* except clause, in the first process (first) or in a later one.          *)
Raises(row, first) ==
  \/ row.Link[1] = "raise"
  \/ row.Link[1] = "flaky" /\ ~first

(* What process_paper gives when it raises instead of returning *)
Raised == [Abstract |-> None, Keywords |-> None, Status |-> "Raised", calls |-> <<>>]

(* process_paper without the return of line 132: after a primary success   *)
(* it goes on to the DOI fallback.                                         *)
process_paper_no_return(row, first) ==
  LET s  == extract_from_scopus(row.Link)
      d  == extract_from_doi(row.DOI)
      c1 == IF Truthy(row.Link) THEN <<"scopus">> ELSE <<>>
      c2 == IF Truthy(row.DOI) THEN <<"doi">> ELSE <<>>
  IN  IF Raises(row, first) THEN Raised
      ELSE IF Truthy(row.DOI) /\ Truthy(d[1])
      THEN [Abstract |-> d[1], Keywords |-> OrElse(d[2], EmptyStr),
            Status |-> "Success - DOI", calls |-> c1 \o c2]
      ELSE IF Truthy(row.Link) /\ Truthy(s[1])
      THEN [Abstract |-> s[1], Keywords |-> OrElse(s[2], EmptyStr),
            Status |-> "Success - Scopus", calls |-> c1 \o c2]
      ELSE [Abstract |-> EmptyStr, Keywords |-> EmptyStr,
            Status |-> "Failed", calls |-> c1 \o c2]

(* process_paper keeping the keywords the primary extraction found when    *)
(* its abstract is absent or empty: the result dict is filled before the   *)
(* test of line 128.                                                       *)
process_paper_keeps_keywords(row, first) ==
  LET s  == extract_from_scopus(row.Link)
      d  == extract_from_doi(row.DOI)
      c1 == IF Truthy(row.Link) THEN <<"scopus">> ELSE <<>>
      c2 == IF Truthy(row.DOI) THEN <<"doi">> ELSE <<>>
      kw == IF Truthy(row.Link) THEN OrElse(s[2], EmptyStr) ELSE EmptyStr
  IN  IF Raises(row, first) THEN Raised
      ELSE IF Truthy(row.Link) /\ Truthy(s[1])
      THEN [Abstract |-> s[1], Keywords |-> kw,
            Status |-> "Success - Scopus", calls |-> c1]
      ELSE IF Truthy(row.DOI) /\ Truthy(d[1])
      THEN [Abstract |-> d[1], Keywords |-> OrElse(d[2], kw),
            Status |-> "Success - DOI", calls |-> c1 \o c2]
      ELSE [Abstract |-> EmptyStr, Keywords |-> kw,
            Status |-> "Failed", calls |-> c1 \o c2]

(* process_paper without the test of line 137: whatever the fallback gives *)
(* for a DOI is taken as a success.                                        *)
process_paper_no_test(row, first) ==
  LET s  == extract_from_scopus(row.Link)
      d  == extract_from_doi(row.DOI)
      c1 == IF Truthy(row.Link) THEN <<"scopus">> ELSE <<>>
      c2 == IF Truthy(row.DOI) THEN <<"doi">> ELSE <<>>
  IN  IF Raises(row, first) THEN Raised
      ELSE IF Truthy(row.Link) /\ Truthy(s[1])
      THEN [Abstract |-> s[1], Keywords |-> OrElse(s[2], EmptyStr),
            Status |-> "Success - Scopus", calls |-> c1]
      ELSE IF Truthy(row.DOI)
      THEN [Abstract |-> OrElse(d[1], EmptyStr), Keywords |-> OrElse(d[2], EmptyStr),
            Status |-> "Success - DOI", calls |-> c1 \o c2]
      ELSE [Abstract |-> EmptyStr, Keywords |-> EmptyStr,
            Status |-> "Failed", calls |-> c1 \o c2]

(***************************************************************************)
(* PaperExtractor.process_paper: the result dict, and (calls) the          *)
(* extractors it invoked, in order.                                        *)
(***************************************************************************)
process_paper(row, first) ==
  LET scopus_url == row.Link
      doi        == row.DOI
      s          == extract_from_scopus(scopus_url)
      d          == extract_from_doi(doi)
      c1         == IF Truthy(scopus_url) THEN <<"scopus">> ELSE <<>>
      c2         == IF Truthy(doi) THEN <<"doi">> ELSE <<>>
  IN  IF Raises(row, first) THEN Raised
      ELSE IF Truthy(scopus_url) /\ Truthy(s[1])
      THEN [Abstract |-> s[1], Keywords |-> OrElse(s[2], EmptyStr),
            Status |-> "Success - Scopus", calls |-> c1]
      ELSE IF Truthy(doi) /\ Truthy(d[1])
      THEN [Abstract |-> d[1], Keywords |-> OrElse(d[2], EmptyStr),
            Status |-> "Success - DOI", calls |-> c1 \o c2]
      ELSE [Abstract |-> EmptyStr, Keywords |-> EmptyStr,
            Status |-> "Failed", calls |-> c1 \o c2]

(* DataFrame.to_csv of one cell: a missing value and '' both give an empty field *)
ToCsv(v) == IF v = NaN THEN EmptyStr ELSE v

(* pd.read_csv of one field: an empty field is read as a missing value *)
FromCsv(f) == IF f = EmptyStr THEN NaN ELSE f

(* DataFrame.to_excel of one cell: a missing value gives a blank cell *)
ToExcel(v) == IF v = NaN THEN EmptyStr ELSE v

(* notna taken as the truthiness of the cell: '' does not count, a missing  *)
(* value does.                                                             *)
notna_as_truthiness(v) == v # EmptyStr

(* Series.notna of one cell *)
notna(v) == v # NaN

(* Series.astype(bool) of one cell of an object column: bool('') is False, *)
(* bool(float('nan')) is True                                              *)
astype_bool(v) == v # EmptyStr

(***************************************************************************)
(* The source store: the rows of the input sheet.  A sheet is held as its  *)
(* number of rows n and the rows that differ from the default row of their *)
(* position.                                                               *)
(***************************************************************************)

(* A row whose Link gives an abstract and keywords and whose DOI would too *)
DefaultRow(p) == [Link |-> <<"ok", p>>, DOI |-> <<"ok", p>>]

(* The row of a sheet at position p (from 1) *)
RowAt(sheet, p) == IF p \in DOMAIN sheet.rows THEN sheet.rows[p] ELSE DefaultRow(p)

(* A sheet, or frame, with no rows *)
NoSheet == [n |-> 0, rows |-> <<>>]

(* Every row a sheet can hold at position p: a Link of any kind or none,   *)
(* a DOI of any kind or none.                                              *)
Rows(p) ==
  { [Link |-> l, DOI |-> d] :
      l \in {<<k, p>> : k \in LinkKinds} \cup {EmptyStr},
      d \in {<<k, p>> : k \in DoiKinds} \cup {EmptyStr} }

(* The rows that may replace a default one in a long sheet: a paper that   *)
(* fails on both tiers, one found by its DOI only, one whose processing    *)
(* raises, one whose processing raises from the second process on, and a   *)
(* row carrying the Link and DOI of the default row before it (a duplicate *)
(* Link).                                                                  *)
SpecialRows(p) ==
  { [Link |-> <<"err", p>>, DOI |-> EmptyStr],
    [Link |-> <<"err", p>>, DOI |-> <<"ok", p>>],
    [Link |-> <<"raise", p>>, DOI |-> <<"ok", p>>],
    [Link |-> <<"flaky", p>>, DOI |-> <<"ok", p>>],
    DefaultRow(IF p > 1 THEN p - 1 ELSE p) }

(* Where a long sheet may hold a special row: its first row, the last row  *)
(* of the first batch, the first row of the second batch, its last row.    *)
SpecialPositions == {1, BATCH_SIZE, BATCH_SIZE + 1, NumPapers}

(* The sheets: every short sheet; and the long sheets with no, one or two  *)
(* special rows.                                                           *)
SmallSources ==
  { [n |-> SmallPapers, rows |-> s] :
      s \in { t \in [1..SmallPapers -> UNION {Rows(p) : p \in 1..SmallPapers}] :
                \A p \in 1..SmallPapers : t[p] \in Rows(p) } }

LargeSources ==
  { [n |-> NumPapers, rows |-> s] :
      s \in UNION { { t \in [Q -> UNION {SpecialRows(p) : p \in Q}] :
                        \A p \in Q : t[p] \in SpecialRows(p) } :
                    Q \in {R \in SUBSET SpecialPositions : Cardinality(R) <= 2} } }

(***************************************************************************)
(* Files.  A file written from a frame holds the frame's rows and the      *)
(* written cells of its Abstract and Keywords columns.                     *)
(***************************************************************************)

(* No file on disk *)
NoFile ==
  [exists |-> FALSE, sheet |-> NoSheet, Abstract |-> <<>>, Keywords |-> <<>>, upto |-> 0,
   held |-> [Abstract |-> <<>>, Keywords |-> <<>>]]

(* to_csv if it wrote the rows the loop has been through only *)
to_csv_processed_only(frame, abstracts, keywords, upto) ==
  [exists |-> TRUE,
   sheet |-> [n |-> upto,
              rows |-> [p \in DOMAIN frame.rows \cap (1..upto) |-> frame.rows[p]]],
   Abstract |-> [p \in 1..upto |-> ToCsv(abstracts[p])],
   Keywords |-> [p \in 1..upto |-> ToCsv(keywords[p])],
   upto |-> upto,
   held |-> [Abstract |-> abstracts, Keywords |-> keywords]]

(* df[checkpoint_cols].to_csv(CHECKPOINT_FILE): every row of df, its Link  *)
(* (FileLink), Abstract and Keywords.  upto and held are not in the file:  *)
(* upto records how many leading rows the loop had been through when the   *)
(* file was written (i + 1), held the columns as they were in memory then. *)
to_csv(frame, abstracts, keywords, upto) ==
  [exists |-> TRUE, sheet |-> frame,
   Abstract |-> [p \in 1..frame.n |-> ToCsv(abstracts[p])],
   Keywords |-> [p \in 1..frame.n |-> ToCsv(keywords[p])],
   upto |-> upto,
   held |-> [Abstract |-> abstracts, Keywords |-> keywords]]

(* The Link field of row p of the checkpoint file *)
FileLink(file, p) == ToCsv(RowAt(file.sheet, p).Link)

(* pd.read_csv(CHECKPOINT_FILE): checkpoint_df, its n rows and its columns *)
read_csv(file) ==
  [n        |-> file.sheet.n,
   Link     |-> [p \in 1..file.sheet.n |-> FromCsv(FileLink(file, p))],
   Abstract |-> [p \in 1..file.sheet.n |-> FromCsv(file.Abstract[p])],
   Keywords |-> [p \in 1..file.sheet.n |-> FromCsv(file.Keywords[p])],
   special  |-> DOMAIN file.sheet.rows]

(* The positions of the rows of right whose Link is key.  Only a row that  *)
(* is not the default row of its position, or the default row of the       *)
(* position key names, can carry key: the others need no look.             *)
Matches(key, right) ==
  {k \in (right.special \cup {key[2]}) \cap (1..right.n) : right.Link[k] = key}

(* The elements of a finite set of numbers in ascending order *)
Ascending(ks) ==
  [j \in 1..Cardinality(ks) |-> CHOOSE k \in ks : Cardinality({m \in ks : m < k}) = j - 1]

(* The rows a left row contributes to a left merge on Link: one per match  *)
(* on the right, in the right's order, or one of missing values.           *)
MergeRow(key, right) ==
  LET ks == Ascending(Matches(key, right))
  IN  IF ks = <<>> THEN << [Link |-> key, Abstract |-> NaN, Keywords |-> NaN] >>
      ELSE [j \in 1..Len(ks) |->
              [Link |-> key, Abstract |-> right.Abstract[ks[j]],
               Keywords |-> right.Keywords[ks[j]]]]

(* df.merge(checkpoint_df, on='Link', how='left'): the merged rows of the  *)
(* left rows lo..hi, in the left's order.  rows[<<a, b>>] is the merge of  *)
(* the left rows a..b, put together from the two halves of the range.      *)
merge(left, right, lo, hi) ==
  LET rows[r \in (1..(left.n + 1)) \X (0..left.n)] ==
        IF r[1] > r[2] THEN <<>>
        ELSE IF r[1] = r[2] THEN MergeRow(RowAt(left, r[1]).Link, right)
        ELSE rows[<<r[1], (r[1] + r[2]) \div 2>>]
               \o rows[<<(r[1] + r[2]) \div 2 + 1, r[2]>>]
  IN  rows[<<lo, hi>>]

(* df[col] = df_merged[col]: aligned on the index 0..len(df)-1 *)
AssignColumn(n, merged, col) ==
  [p \in 1..n |-> IF col = "Abstract" THEN merged[p].Abstract ELSE merged[p].Keywords]

(* df[col].notna().sum() *)
notna_sum(column) == Cardinality({p \in 1..Len(column) : notna(column[p])})

(* df['Abstract'].astype(bool).sum() *)
astype_bool_sum(column) == Cardinality({p \in 1..Len(column) : astype_bool(column[p])})

(* df.to_excel(OUTPUT_FILE): every row of df, with its Abstract and Keywords *)
to_excel(frame, abstracts, keywords) ==
  [exists |-> TRUE, sheet |-> frame,
   Abstract |-> [p \in 1..frame.n |-> ToExcel(abstracts[p])],
   Keywords |-> [p \in 1..frame.n |-> ToExcel(keywords[p])],
   upto |-> frame.n,
   held |-> [Abstract |-> abstracts, Keywords |-> keywords]]

Sources == SmallSources \cup LargeSources

(***************************************************************************)
(* Texts.  A text is a sequence of characters; the texts of the model are  *)
(* those of at most MaxLen characters over a letter, the space, the tab, a *)
(* character clean_text does not keep, and the two angle brackets.         *)
(***************************************************************************)
MaxLen == 5

(* The characters \s matches *)
Whitespace == {" ", "\t"}

(* The characters of the model that [a-zA-Z0-9\s.,;:()\-] matches *)
Kept == {"a"} \cup Whitespace

Chars == {"a", " ", "\t", "!", "<", ">"}

Texts == UNION {[1..k -> Chars] : k \in 0..MaxLen}

(* Python's None where a text may stand: what find() gives when no element *)
(* matches, and what the extractors return for "absent".                   *)
NoText == <<"None">>

(* Python truthiness of a text or None: None and '' are falsy *)
TruthyText(t) == t # NoText /\ t # <<>>

(* re.sub(r'<[^>]+>', '', text): a '<', one or more characters that are    *)
(* not '>', and the '>' after them, are removed; matches are taken from    *)
(* left to right and do not overlap.                                       *)
RECURSIVE remove_html_tags(_)
remove_html_tags(s) ==
  IF s = <<>> THEN <<>>
  ELSE LET closes == {j \in 2..Len(s) : s[j] = ">"}
           first  == CHOOSE j \in closes : \A k \in closes : j <= k
       IN  IF s[1] = "<" /\ closes # {} /\ first >= 3
           THEN remove_html_tags(SubSeq(s, first + 1, Len(s)))
           ELSE <<s[1]>> \o remove_html_tags(Tail(s))

(* s without its leading whitespace *)
RECURSIVE lstrip(_)
lstrip(s) == IF s # <<>> /\ s[1] \in Whitespace THEN lstrip(Tail(s)) ELSE s

(* s without its trailing whitespace *)
RECURSIVE rstrip(_)
rstrip(s) ==
  IF s # <<>> /\ s[Len(s)] \in Whitespace THEN rstrip(SubSeq(s, 1, Len(s) - 1)) ELSE s

(* re.sub(r'\s+', ' ', text): every run of whitespace becomes one space *)
RECURSIVE remove_extra_whitespace(_)
remove_extra_whitespace(s) ==
  IF s = <<>> THEN <<>>
  ELSE IF s[1] \in Whitespace THEN <<" ">> \o remove_extra_whitespace(lstrip(s))
  ELSE <<s[1]>> \o remove_extra_whitespace(Tail(s))

(* re.sub(r'[^a-zA-Z0-9\s.,;:()\-]', '', text): every other character is   *)
(* removed.                                                                *)
remove_special_characters(s) == SelectSeq(s, LAMBDA c : c \in Kept)

(* str.strip() *)
strip(s) == rstrip(lstrip(s))

(* PaperExtractor.clean_text *)
clean_text(text) ==
  IF ~TruthyText(text) THEN <<>>
  ELSE strip(remove_special_characters(remove_extra_whitespace(remove_html_tags(text))))

(***************************************************************************)
(* The extractors, step by step.  What session.get gives is a response: a  *)
(* status, and for an answer of the server its body.                       *)
(***************************************************************************)

(* The raw texts an element of a page, or a field of an API answer, may    *)
(* hold: nothing, a character clean_text removes, a letter, and a text     *)
(* with whitespace to collapse and to strip.                               *)
ElementTexts == { <<>>, <<"!">>, <<"a">>, <<" ", "a", "\t", " ", "a">> }

(* A parsed page (soup), by what the four find() calls give: the text of   *)
(* the div.abstract inside section#abstractSection, of the first           *)
(* div.abstract of the page, the content of meta[name=description], the    *)
(* text of the first span.keyword; NoText where find() gives None.  A      *)
(* div.abstract inside the section is a div.abstract of the page.          *)
Documents ==
  { d \in [section : ElementTexts \cup {NoText}, div : ElementTexts \cup {NoText},
           meta : ElementTexts \cup {NoText}, keyword : ElementTexts \cup {NoText}] :
      d.section # NoText => d.div # NoText }

(* A page in which find() matches nothing *)
EmptyDocument == [section |-> NoText, div |-> NoText, meta |-> NoText, keyword |-> NoText]

(* The outcomes of session.get(url, timeout=15) and of parsing: the        *)
(* request raises (no connection, timeout); the server answers with a      *)
(* non-2xx status and some page; the parser raises on the body; the server *)
(* answers 2xx with a page.                                                *)
ScopusResponses ==
  { [status |-> st, doc |-> EmptyDocument] : st \in {"network_error", "timeout", "parse_error"} }
    \cup { [status |-> st, doc |-> d] : st \in {"http_error", "ok"}, d \in Documents }

(* The JSON bodies of the API: not JSON; a JSON value that is no object; an *)
(* object without message; a message that is no object; a message without *)
(* abstract; an abstract that is null, a number, or a text.                *)
JsonBodies ==
  { [kind |-> k, abstract |-> NoText] :
      k \in {"bad_json", "not_object", "no_message", "message_not_object",
             "no_abstract", "null_abstract", "number_abstract"} }
    \cup { [kind |-> "abstract", abstract |-> t] : t \in ElementTexts }

(* The outcomes of session.get(api_url, timeout=10) *)
DoiResponses ==
  { [status |-> st, json |-> [kind |-> "bad_json", abstract |-> NoText]] :
      st \in {"network_error", "timeout"} }
    \cup { [status |-> st, json |-> j] : st \in {"http_error", "ok"}, j \in JsonBodies }

(* An exception leaving a block of code *)
Exception == <<"Exception">>

(* extract_from_scopus, lines 59-90, without the raise_for_status of line  *)
(* 60: the page of an error answer is parsed like any other.               *)
scopus_try_no_raise_for_status(response) ==
  IF response.status \in {"network_error", "timeout", "parse_error"} THEN Exception
  ELSE LET soup == response.doc
           s1 == IF soup.section # NoText THEN clean_text(soup.section) ELSE NoText
           s2 == IF ~TruthyText(s1) /\ soup.div # NoText THEN clean_text(soup.div) ELSE s1
           s3 == IF ~TruthyText(s2) /\ soup.meta # NoText THEN clean_text(soup.meta) ELSE s2
           keywords == IF soup.keyword # NoText THEN clean_text(soup.keyword) ELSE NoText
       IN  <<s3, keywords>>

(* extract_from_scopus, lines 59-90, with the meta tag looked at before    *)
(* the div.abstract of the page.                                           *)
scopus_try_meta_first(response) ==
  IF response.status # "ok" THEN Exception
  ELSE LET soup == response.doc
           s1 == IF soup.section # NoText THEN clean_text(soup.section) ELSE NoText
           s2 == IF ~TruthyText(s1) /\ soup.meta # NoText THEN clean_text(soup.meta) ELSE s1
           s3 == IF ~TruthyText(s2) /\ soup.div # NoText THEN clean_text(soup.div) ELSE s2
           keywords == IF soup.keyword # NoText THEN clean_text(soup.keyword) ELSE NoText
       IN  <<s3, keywords>>

(* extract_from_scopus, lines 59-90: the body of the try block.  The get,  *)
(* raise_for_status or the parser may raise; then the three strategies in  *)
(* turn (abstract after strategy 1, 2, 3: s1, s2, s3), then the keywords.  *)
scopus_try(response) ==
  IF response.status # "ok" THEN Exception
  ELSE LET soup == response.doc
           s1 == IF soup.section # NoText THEN clean_text(soup.section) ELSE NoText
           s2 == IF ~TruthyText(s1) /\ soup.div # NoText THEN clean_text(soup.div) ELSE s1
           s3 == IF ~TruthyText(s2) /\ soup.meta # NoText THEN clean_text(soup.meta) ELSE s2
           keywords == IF soup.keyword # NoText THEN clean_text(soup.keyword) ELSE NoText
       IN  <<s3, keywords>>

(* extract_from_scopus, lines 58-94, for the response its get receives:    *)
(* the try block, and the except clause that returns None, None.           *)
extract_from_scopus_response(response) ==
  LET r == scopus_try(response)
  IN  IF r = Exception THEN <<NoText, NoText>> ELSE r

(* extract_from_doi, lines 99-107: the body of the try block.  It returns  *)
(* a pair, raises, or falls through (FellThrough) to line 112.             *)
FellThrough == <<"FellThrough">>

doi_try(response) ==
  IF response.status # "ok" THEN Exception
  ELSE CASE response.json.kind \in {"bad_json", "not_object", "message_not_object"} -> Exception
         [] response.json.kind \in {"no_message", "no_abstract", "null_abstract"} -> FellThrough
         [] response.json.kind = "number_abstract" -> Exception
         [] OTHER -> IF TruthyText(response.json.abstract)
                     THEN <<clean_text(response.json.abstract), NoText>>
                     ELSE FellThrough

(* extract_from_doi, lines 98-112, for the response its get receives *)
extract_from_doi_response(response) ==
  LET r == doi_try(response)
  IN  IF r \in {Exception, FellThrough} THEN <<NoText, NoText>> ELSE r

(***************************************************************************)
(* State.                                                                  *)
(***************************************************************************)
VARIABLES
  source,         \* the input sheet (INPUT_FILE)
  checkpoint,     \* CHECKPOINT_FILE on disk
  output,         \* OUTPUT_FILE on disk
  firstRun,       \* whether this process is the first one started
  pc,             \* where main() is
  df,             \* the frame read from the sheet (its Link and DOI columns)
  Abstract,       \* df['Abstract']
  Keywords,       \* df['Keywords']
  start_index,    \* start_index
  i,              \* the loop variable: the next position to process
  result,         \* the last iteration's process_paper result
  slept,          \* seconds slept in the last iteration
  saved,          \* whether the last iteration wrote the checkpoint
  unsaved,        \* results written back in this process since its last checkpoint
  success_count,  \* the printed "Successfully extracted" count
  call,           \* a call of clean_text or of an extractor on its own: what is called, on what
  returned        \* what that call returned

vars == <<source, checkpoint, output, firstRun, pc, df, Abstract, Keywords,
          start_index, i, result, slept, saved, unsaved, success_count, call, returned>>

disk == <<source, checkpoint, output>>

unit == <<call, returned>>

(* No call on its own, and nothing returned *)
NoCall == [fn |-> "none", arg |-> <<>>]

NotReturned == <<"NotReturned">>

(* No result yet in this process *)
NoResult == [Abstract |-> None, Keywords |-> None, Status |-> "None", calls |-> <<>>]

(* The memory of a process that has just been started, or is gone *)
FreshMemory(where) ==
  /\ pc' = where
  /\ df' = NoSheet
  /\ Abstract' = <<>>
  /\ Keywords' = <<>>
  /\ start_index' = 0
  /\ i' = 0
  /\ result' = NoResult
  /\ slept' = 0
  /\ saved' = FALSE
  /\ unsaved' = 0
  /\ success_count' = 0

Init ==
  /\ source \in Sources
  /\ checkpoint = NoFile
  /\ output = NoFile
  /\ firstRun = TRUE
  /\ pc = "Loading"
  /\ df = NoSheet
  /\ Abstract = <<>>
  /\ Keywords = <<>>
  /\ start_index = 0
  /\ i = 0
  /\ result = NoResult
  /\ slept = 0
  /\ saved = FALSE
  /\ unsaved = 0
  /\ success_count = 0
  /\ call = NoCall
  /\ returned = NotReturned

(* Where main() goes once the loop variable is j: on into the loop, or out of it *)
LoopOrFinalize(j, n) == IF j < n THEN "Iterating" ELSE "Finalizing"

(* The load if a failure to read the store also removed the checkpoint     *)
(* file on its way out.                                                    *)
Load_cleanup_on_failure ==
  /\ pc = "Loading"
  /\ \/ /\ df' = source
        /\ pc' = "Resuming"
        /\ UNCHANGED checkpoint
     \/ /\ df' = df
        /\ pc' = "Aborted"
        /\ checkpoint' = NoFile
  /\ UNCHANGED <<source, output, firstRun, Abstract, Keywords, start_index, i, result,
                 slept, saved, unsaved, success_count, unit>>

(***************************************************************************)
(* main(), lines 159-162: pd.read_excel.  An unreadable store raises, and  *)
(* nothing catches it.                                                     *)
(***************************************************************************)
Load ==
  /\ pc = "Loading"
  /\ \/ /\ df' = source
        /\ pc' = "Resuming"
     \/ /\ df' = df
        /\ pc' = "Aborted"
  /\ UNCHANGED <<disk, firstRun, Abstract, Keywords, start_index, i, result,
                 slept, saved, unsaved, success_count, unit>>

(* The resume step if it also took an earlier run's output file as        *)
(* progress: with no checkpoint, the output's abstracts are kept and       *)
(* counted.                                                                *)
Resume_from_output ==
  /\ pc = "Resuming"
  /\ LET file == IF checkpoint.exists THEN checkpoint ELSE output
     IN  IF file.exists
         THEN \E checkpoint_df \in {read_csv(file)} :
              \E df_merged \in {merge(df, checkpoint_df, 1, df.n)} :
              \E abstracts \in {AssignColumn(df.n, df_merged, "Abstract")} :
                  /\ Abstract' = abstracts
                  /\ Keywords' = AssignColumn(df.n, df_merged, "Keywords")
                  /\ start_index' = notna_sum(abstracts)
         ELSE /\ Abstract' = [p \in 1..df.n |-> EmptyStr]
              /\ Keywords' = [p \in 1..df.n |-> EmptyStr]
              /\ start_index' = 0
  /\ i' = start_index'
  /\ pc' = LoopOrFinalize(start_index', df.n)
  /\ UNCHANGED <<disk, firstRun, df, result, slept, saved, unsaved, success_count, unit>>

(***************************************************************************)
(* main(), lines 164-175: the checkpoint merge and start_index.  Each of   *)
(* checkpoint_df, df_merged and the new Abstract column is one value, the  *)
(* one element of its set.                                                 *)
(***************************************************************************)
Resume ==
  /\ pc = "Resuming"
  /\ IF checkpoint.exists
     THEN \E checkpoint_df \in {read_csv(checkpoint)} :
          \E df_merged \in {merge(df, checkpoint_df, 1, df.n)} :
          \E abstracts \in {AssignColumn(df.n, df_merged, "Abstract")} :
              /\ Abstract' = abstracts
              /\ Keywords' = AssignColumn(df.n, df_merged, "Keywords")
              /\ start_index' = notna_sum(abstracts)
     ELSE /\ Abstract' = [p \in 1..df.n |-> EmptyStr]
          /\ Keywords' = [p \in 1..df.n |-> EmptyStr]
          /\ start_index' = 0
  /\ i' = start_index'
  /\ pc' = LoopOrFinalize(start_index', df.n)
  /\ UNCHANGED <<disk, firstRun, df, result, slept, saved, unsaved, success_count, unit>>

(* The loop if the write-back assigned the result to the whole column      *)
(* (df['Abstract'] = ...) instead of to the cell at i.                     *)
Iterate_writes_column ==
  /\ pc = "Iterating"
  /\ i < df.n
  /\ LET r == process_paper(RowAt(df, i + 1), firstRun)
         abstracts == [p \in 1..df.n |-> r.Abstract]
         keywords  == [p \in 1..df.n |-> r.Keywords]
     IN  /\ result' = r
         /\ \/ /\ r.Status = "Raised"
               /\ UNCHANGED <<Abstract, Keywords, checkpoint, unsaved>>
               /\ saved' = FALSE
               /\ slept' = 0
            \/ /\ r.Status # "Raised"
               /\ Abstract' = abstracts
               /\ Keywords' = keywords
               /\ checkpoint' = IF (i + 1) % BATCH_SIZE = 0
                                THEN to_csv(df, abstracts, keywords, i + 1) ELSE checkpoint
               /\ unsaved' = IF (i + 1) % BATCH_SIZE = 0 THEN 0 ELSE unsaved + 1
               /\ saved' = ((i + 1) % BATCH_SIZE = 0)
               /\ slept' = RATE_LIMIT
  /\ i' = i + 1
  /\ pc' = LoopOrFinalize(i + 1, df.n)
  /\ UNCHANGED <<source, output, firstRun, df, start_index, success_count, unit>>

(* The loop if the except clause went back to the same record instead of   *)
(* on to the next.                                                         *)
Iterate_retry_on_exception ==
  /\ pc = "Iterating"
  /\ i < df.n
  /\ LET r == process_paper(RowAt(df, i + 1), firstRun)
         abstracts == [Abstract EXCEPT ![i + 1] = r.Abstract]
         keywords  == [Keywords EXCEPT ![i + 1] = r.Keywords]
     IN  /\ result' = r
         /\ \/ /\ r.Status = "Raised"
               /\ UNCHANGED <<Abstract, Keywords, checkpoint, unsaved, i, pc>>
               /\ saved' = FALSE
               /\ slept' = 0
            \/ /\ r.Status # "Raised"
               /\ Abstract' = abstracts
               /\ Keywords' = keywords
               /\ checkpoint' = IF (i + 1) % BATCH_SIZE = 0
                                THEN to_csv(df, abstracts, keywords, i + 1) ELSE checkpoint
               /\ unsaved' = IF (i + 1) % BATCH_SIZE = 0 THEN 0 ELSE unsaved + 1
               /\ saved' = ((i + 1) % BATCH_SIZE = 0)
               /\ slept' = RATE_LIMIT
               /\ i' = i + 1
               /\ pc' = LoopOrFinalize(i + 1, df.n)
  /\ UNCHANGED <<source, output, firstRun, df, start_index, success_count, unit>>

(***************************************************************************)
(* main(), lines 183-207: one iteration of the loop, with its try/except.  *)
(* An exception goes to the except clause, which logs it and continues:    *)
(* whatever came after the raising statement in the try block (the write   *)
(* back, the checkpoint, the sleep) is skipped.  The writes of the         *)
(* checkpoint file themselves succeed.                                     *)
(***************************************************************************)
Iterate ==
  /\ pc = "Iterating"
  /\ i < df.n
  /\ LET r == process_paper(RowAt(df, i + 1), firstRun)
         abstracts == [Abstract EXCEPT ![i + 1] = r.Abstract]
         keywords  == [Keywords EXCEPT ![i + 1] = r.Keywords]
     IN  /\ result' = r
         /\ \/ /\ r.Status = "Raised"
               /\ UNCHANGED <<Abstract, Keywords, checkpoint, unsaved>>
               /\ saved' = FALSE
               /\ slept' = 0
            \/ /\ r.Status # "Raised"
               /\ (i + 1) % BATCH_SIZE # 0
               /\ Abstract' = abstracts
               /\ Keywords' = keywords
               /\ UNCHANGED checkpoint
               /\ unsaved' = unsaved + 1
               /\ saved' = FALSE
               /\ slept' = RATE_LIMIT
            \/ /\ r.Status # "Raised"
               /\ (i + 1) % BATCH_SIZE = 0
               /\ Abstract' = abstracts
               /\ Keywords' = keywords
               /\ checkpoint' = to_csv(df, abstracts, keywords, i + 1)
               /\ unsaved' = 0
               /\ saved' = TRUE
               /\ slept' = RATE_LIMIT
  /\ i' = i + 1
  /\ pc' = LoopOrFinalize(i + 1, df.n)
  /\ UNCHANGED <<source, output, firstRun, df, start_index, success_count, unit>>

(* The final step if it removed the checkpoint before writing the output *)
SaveOutput_cleanup_first ==
  /\ pc = "Finalizing"
  /\ checkpoint' = NoFile
  /\ \/ /\ output' = to_excel(df, Abstract, Keywords)
        /\ success_count' = astype_bool_sum(Abstract)
        /\ pc' = "Cleanup"
     \/ /\ UNCHANGED <<output, success_count>>
        /\ pc' = "Aborted"
  /\ UNCHANGED <<source, firstRun, df, Abstract, Keywords, start_index,
                 i, result, slept, saved, unsaved, unit>>

(***************************************************************************)
(* main(), lines 209-224: df.to_excel, then the statistics.  A failing     *)
(* write raises, and nothing catches it.                                   *)
(***************************************************************************)
SaveOutput ==
  /\ pc = "Finalizing"
  /\ \/ /\ output' = to_excel(df, Abstract, Keywords)
        /\ success_count' = astype_bool_sum(Abstract)
        /\ pc' = "Cleanup"
     \/ /\ UNCHANGED <<output, success_count>>
        /\ pc' = "Aborted"
  /\ UNCHANGED <<source, checkpoint, firstRun, df, Abstract, Keywords, start_index,
                 i, result, slept, saved, unsaved, unit>>

(***************************************************************************)
(* main(), lines 226-228: the checkpoint cleanup.                          *)
(***************************************************************************)
Cleanup ==
  /\ pc = "Cleanup"
  /\ checkpoint' = NoFile
  /\ pc' = "Done"
  /\ UNCHANGED <<source, output, firstRun, df, Abstract, Keywords, start_index,
                 i, result, slept, saved, unsaved, success_count, unit>>

(***************************************************************************)
(* The process is terminated from outside, at any point of its run: its    *)
(* memory is gone, the files stay as they are.                             *)
(***************************************************************************)
Kill ==
  /\ pc \in {"Loading", "Resuming", "Iterating", "Finalizing", "Cleanup"}
  /\ FreshMemory("Killed")
  /\ UNCHANGED <<disk, firstRun, unit>>

(***************************************************************************)
(* The script is started again: a new process, the same files.             *)
(***************************************************************************)
Start ==
  /\ pc \in {"Killed", "Aborted", "Done"}
  /\ FreshMemory("Loading")
  /\ firstRun' = FALSE
  /\ UNCHANGED <<disk, unit>>

Next == Load \/ Resume \/ Iterate \/ SaveOutput \/ Cleanup \/ Kill \/ Start

Spec == Init /\ [][Next]_vars

(* A step of the running process *)
RunStep == Load \/ Resume \/ Iterate \/ SaveOutput \/ Cleanup

(* The long sheets with at most one special row, in the first or the last  *)
(* position.                                                               *)
LiveSources ==
  { src \in LargeSources :
      DOMAIN src.rows \in {{}, {1}, {NumPapers}} }

LiveInit == Init /\ source \in LiveSources

(* The runs, over these sheets, in which a process that is not terminated  *)
(* goes on: its next statement is executed, every call it makes returns.   *)
(* Termination from outside and a new start may or may not happen.         *)
LiveSpec == LiveInit /\ [][Next]_vars /\ WF_vars(RunStep)

(***************************************************************************)
(* The functions on their own: clean_text, extract_from_scopus and         *)
(* extract_from_doi each called once, on a text or on what its get         *)
(* receives, while main() is not running.                                  *)
(***************************************************************************)
run == <<source, checkpoint, output, firstRun, pc, df, Abstract, Keywords,
         start_index, i, result, slept, saved, unsaved, success_count>>

(* The calls: clean_text on a text or None, an extractor on a response *)
Calls ==
  { [fn |-> "clean_text", arg |-> t] : t \in Texts \cup {NoText} }
    \cup { [fn |-> "extract_from_scopus", arg |-> r] : r \in ScopusResponses }
    \cup { [fn |-> "extract_from_doi", arg |-> r] : r \in DoiResponses }

InitCall ==
  /\ call \in Calls
  /\ returned = NotReturned
  /\ source = NoSheet
  /\ checkpoint = NoFile
  /\ output = NoFile
  /\ firstRun = TRUE
  /\ pc = "NotRunning"
  /\ df = NoSheet
  /\ Abstract = <<>>
  /\ Keywords = <<>>
  /\ start_index = 0
  /\ i = 0
  /\ result = NoResult
  /\ slept = 0
  /\ saved = FALSE
  /\ unsaved = 0
  /\ success_count = 0

(* clean_text(text) *)
CallCleanText ==
  /\ call.fn = "clean_text"
  /\ returned = NotReturned
  /\ returned' = clean_text(call.arg)
  /\ UNCHANGED <<call, run>>

(* extract_from_scopus(url), the get receiving call.arg *)
CallExtractFromScopus ==
  /\ call.fn = "extract_from_scopus"
  /\ returned = NotReturned
  /\ returned' = extract_from_scopus_response(call.arg)
  /\ UNCHANGED <<call, run>>

(* extract_from_doi(doi), the get receiving call.arg *)
CallExtractFromDoi ==
  /\ call.fn = "extract_from_doi"
  /\ returned = NotReturned
  /\ returned' = extract_from_doi_response(call.arg)
  /\ UNCHANGED <<call, run>>

NextCall == CallCleanText \/ CallExtractFromScopus \/ CallExtractFromDoi

CallSpec == InitCall /\ [][NextCall]_vars

(***************************************************************************)
(* Properties.                                                             *)
(***************************************************************************)

(* This process has been through an iteration of the loop: result is what  *)
(* process_paper gave for the row at position i - 1, LastRow.              *)
Handled == result.Status # "None"

LastRow == RowAt(df, i)

(* process_paper returned for the last row (it did not raise) *)
Returned == Handled /\ result.Status # "Raised"

(* The primary tier gives a non-empty abstract for the row *)
PrimaryYields(row) == Truthy(row.Link) /\ Truthy(extract_from_scopus(row.Link)[1])

(* The fallback tier gives a non-empty abstract for the row *)
FallbackYields(row) == Truthy(row.DOI) /\ Truthy(extract_from_doi(row.DOI)[1])

(* The extractors a call of process_paper invoked *)
Invoked(r) == {r.calls[k] : k \in 1..Len(r.calls)}

(* C1: whenever the primary extraction of a row with a non-empty Link      *)
(* gives a non-empty abstract, process_paper returns Success - Scopus with *)
(* that abstract and has not invoked extract_from_doi, whatever the row's  *)
(* DOI is.                                                                 *)
C1_PrimaryTakesPrecedence ==
  (Returned /\ PrimaryYields(LastRow)) =>
     /\ result.Status = "Success - Scopus"
     /\ result.Abstract = extract_from_scopus(LastRow.Link)[1]
     /\ "doi" \notin Invoked(result)

(* C1's case: a primary success for a row whose DOI would give an abstract too *)
C1_Witness ==
  /\ Returned
  /\ PrimaryYields(LastRow)
  /\ FallbackYields(LastRow)
  /\ result.Status = "Success - Scopus"

UniqueLinks(frame) ==
  \A q \in DOMAIN frame.rows : \A p \in 1..frame.n :
     RowAt(frame, p).Link = frame.rows[q].Link => p = q

(* No row of the frame is one whose processing raises *)
NoneRaises(frame) ==
  \A q \in DOMAIN frame.rows : frame.rows[q].Link[1] \notin {"raise", "flaky"}

(* A sheet with distinct Links and an answer, be it a failure, for every   *)
(* row                                                                     *)
PlainSheet(frame) == UniqueLinks(frame) /\ NoneRaises(frame)

(* The process has computed its resume index and has not yet been through  *)
(* an iteration: the checkpoint file is the one it resumed from.           *)
JustResumed == pc \in {"Iterating", "Finalizing"} /\ ~Handled

(* The output file is the one this process has written *)
OutputWritten == pc \in {"Cleanup", "Done"}

(* C2: a process that resumes from a checkpoint written when the loop had  *)
(* been through the first k rows of a plain sheet computes the resume      *)
(* index k (and so processes the positions k..n-1 only).                   *)
C2_ResumeIndexIsCheckpointedPrefix ==
  (JustResumed /\ checkpoint.exists /\ PlainSheet(df)) => start_index = checkpoint.upto

(* C3: at every point of the loop, at which the process may be terminated, *)
(* at most BATCH_SIZE - 1 results written back by this process are missing *)
(* from the checkpoint file.                                               *)
C3_LostWorkBelowBatchSize ==
  pc = "Iterating" => unsaved <= BATCH_SIZE - 1

(* The positions (from 1) at which this process's loop raised *)
FailingRecords == {p \in (start_index + 1)..i : Raises(RowAt(df, p), firstRun)}

(* C4: a row whose processing raised is passed over, the run goes on to    *)
(* its end, and the row's Abstract and Keywords are empty in the output    *)
(* the run writes, in a first process and in a resumed one alike.          *)
C4_FailingRecordEmptyInOutput ==
  /\ result.Status = "Raised" => pc \in {"Iterating", "Finalizing", "Cleanup", "Done", "Aborted"}
  /\ (OutputWritten /\ UniqueLinks(df)) =>
        \A p \in FailingRecords :
           output.Abstract[p] = EmptyStr /\ output.Keywords[p] = EmptyStr

(* C6: on a plain sheet, an iteration has written the checkpoint exactly   *)
(* when the number of rows this process has been through, i - start_index, *)
(* is a multiple of BATCH_SIZE.                                            *)
C6_CheckpointEveryBatchOfThisRun ==
  (Handled /\ PlainSheet(df)) => (saved <=> (i - start_index) % BATCH_SIZE = 0)

(* C7: on a plain sheet, the printed count of successes is the number of   *)
(* rows whose Abstract is non-empty in the final record set.               *)
C7_SuccessCountIsNonEmptyCount ==
  (OutputWritten /\ PlainSheet(df)) =>
     success_count = Cardinality({p \in 1..df.n : Abstract[p] \notin {EmptyStr, NaN}})

(* C8, as stated: once a run is past the loop, the checkpoint file or an   *)
(* output file exists.                                                     *)
C8_CheckpointOrOutputExists ==
  pc \in {"Finalizing", "Cleanup", "Done"} => (checkpoint.exists \/ output.exists)

(* C8, amended: the output write, failing or not, leaves the checkpoint    *)
(* file as it is; the checkpoint file is deleted only by the cleanup step, *)
(* after this process has written the complete record set to the output;   *)
(* in Done there is no checkpoint file and the output holds the complete   *)
(* record set.                                                             *)
C8_OutputBeforeCleanup ==
  [][ /\ pc = "Finalizing" => checkpoint' = checkpoint
      /\ (checkpoint.exists /\ ~checkpoint'.exists) =>
            (pc = "Cleanup" /\ output = to_excel(df, Abstract, Keywords))
      /\ pc' = "Done" =>
            (~checkpoint'.exists /\ output' = to_excel(df', Abstract', Keywords')) ]_vars

(* C8's case: the output is written and the checkpoint is still to be deleted *)
C8_Witness ==
  /\ pc = "Cleanup"
  /\ checkpoint.exists
  /\ output = to_excel(df, Abstract, Keywords)

(* C9: a process that finds no checkpoint file starts with empty columns   *)
(* at position 0, whatever output file there is; the loop goes through the *)
(* positions one by one from the resume index to the end, so every row is  *)
(* processed; a process whose resume index is not 0 had a checkpoint file. *)
C9_NoCheckpointNoSkip ==
  [][ /\ (pc = "Resuming" /\ pc' \in {"Iterating", "Finalizing"} /\ ~checkpoint.exists) =>
            /\ start_index' = 0
            /\ i' = 0
            /\ \A p \in 1..df.n : Abstract'[p] = EmptyStr /\ Keywords'[p] = EmptyStr
      /\ (pc = "Resuming" /\ start_index' > 0) => checkpoint.exists
      /\ (pc = "Iterating" /\ pc' \in {"Iterating", "Finalizing"}) =>
            /\ start_index' = start_index
            /\ i' = i + 1
            /\ result'.Status # "None"
      /\ pc' = "Finalizing" => i' = df'.n ]_vars

(* C9's case: a process started after a completed run, with that run's     *)
(* output on disk and no checkpoint, is processing the sheet from 0.       *)
C9_Witness ==
  /\ ~firstRun
  /\ output.exists
  /\ ~checkpoint.exists
  /\ pc = "Iterating"
  /\ start_index = 0
  /\ i > 0
  /\ df.n = NumPapers

(* C10: every iteration of the loop, whatever became of its row, has slept *)
(* the fixed delay once before the next.                                   *)
C10_SleepAfterEveryRecord ==
  Handled => slept = RATE_LIMIT

(* The call of fn on its own has returned *)
Called(fn) == call.fn = fn /\ returned # NotReturned

(* What an extractor returns is a pair of a text or None each *)
IsPair(r) ==
  /\ r \notin {Exception, FellThrough, NotReturned}
  /\ Len(r) = 2
  /\ r[1] = NoText \/ r[1] \in Texts
  /\ r[2] = NoText \/ r[2] \in Texts

Yield(element) == IF element = NoText THEN NoText ELSE clean_text(element)

(* C12: for a fetched page, the abstract extract_from_scopus returns is    *)
(* what the first of the strategies section, div, meta that yields a       *)
(* non-empty text yields; it is empty or None if none does and None if no  *)
(* strategy finds its element; the keywords are what the keyword element   *)
(* yields, whatever the abstract.                                          *)
C12_FirstStrategyThatYields ==
  (Called("extract_from_scopus") /\ call.arg.status = "ok") =>
     LET d == call.arg.doc
     IN  /\ TruthyText(Yield(d.section)) => returned[1] = Yield(d.section)
         /\ (~TruthyText(Yield(d.section)) /\ TruthyText(Yield(d.div))) =>
               returned[1] = Yield(d.div)
         /\ (~TruthyText(Yield(d.section)) /\ ~TruthyText(Yield(d.div))
               /\ TruthyText(Yield(d.meta))) => returned[1] = Yield(d.meta)
         /\ (~TruthyText(Yield(d.section)) /\ ~TruthyText(Yield(d.div))
               /\ ~TruthyText(Yield(d.meta))) => ~TruthyText(returned[1])
         /\ (d.section = NoText /\ d.div = NoText /\ d.meta = NoText) =>
               returned[1] = NoText
         /\ returned[2] = Yield(d.keyword)

(* C12's case: the section's element yields nothing, the page's            *)
(* div.abstract and the meta tag yield different texts, and the div's is   *)
(* returned.                                                               *)
C12_Witness ==
  /\ Called("extract_from_scopus")
  /\ call.arg.status = "ok"
  /\ call.arg.doc.section # NoText
  /\ ~TruthyText(Yield(call.arg.doc.section))
  /\ TruthyText(Yield(call.arg.doc.div))
  /\ TruthyText(Yield(call.arg.doc.meta))
  /\ Yield(call.arg.doc.meta) # Yield(call.arg.doc.div)
  /\ returned[1] = Yield(call.arg.doc.div)

(* C14: what clean_text returns has no two adjacent whitespace characters  *)
(* and no whitespace at either end, and clean_text leaves it as it is.     *)
C14_WhitespaceCollapsed ==
  Called("clean_text") =>
     /\ \A k \in 1..(Len(returned) - 1) :
           ~(returned[k] \in Whitespace /\ returned[k + 1] \in Whitespace)
     /\ returned # <<>> =>
           (returned[1] \notin Whitespace /\ returned[Len(returned)] \notin Whitespace)
     /\ clean_text(returned) = returned

(* C13: a process that has resumed from a checkpoint of a plain sheet      *)
(* holds, for every row, the Abstract and Keywords that were in memory     *)
(* when the checkpoint was written, the empty values of failed and of not  *)
(* yet processed rows included.                                            *)
C13_CheckpointRoundTrips ==
  (JustResumed /\ checkpoint.exists /\ PlainSheet(df)) =>
     \A p \in 1..df.n :
        /\ Abstract[p] = checkpoint.held.Abstract[p]
        /\ Keywords[p] = checkpoint.held.Keywords[p]

(* This process's read of the source store failed *)
LoadFailed == pc = "Aborted" /\ df = NoSheet

(* C15: a failing read of the store takes the run from Loading straight to *)
(* its abort, before the resume step, the loop and the output step: the    *)
(* step leaves the checkpoint and output files as they are, no frame is    *)
(* loaded and process_paper was not called (no request); the aborted       *)
(* process does nothing more, the files stay until the script is started   *)
(* again.                                                                  *)
C15_LoadFailureAbortsBeforeProcessing ==
  [][ /\ (pc = "Loading" /\ pc' = "Aborted") =>
            /\ checkpoint' = checkpoint
            /\ output' = output
            /\ df' = NoSheet
            /\ result' = NoResult
            /\ i' = 0
      /\ LoadFailed =>
            (pc' = "Loading" /\ checkpoint' = checkpoint /\ output' = output) ]_vars

(* C15's case: a process started next to a checkpoint file has failed to   *)
(* read the store, and the checkpoint file is still there.                 *)
C15_Witness ==
  /\ LoadFailed
  /\ ~firstRun
  /\ checkpoint.exists
  /\ result = NoResult

PrimaryFindsKeywords(row) == Truthy(row.Link) /\ Truthy(extract_from_scopus(row.Link)[2])

(* C17: the keywords of a process_paper result are non-empty only with the *)
(* status Success - Scopus: a Success - DOI or Failed result has empty     *)
(* keywords, also when the primary extraction found keywords next to an    *)
(* absent or empty abstract; with Success - Scopus they are the keywords   *)
(* the primary extraction found, or empty.                                 *)
C17_KeywordsOnlyWithPrimarySuccess ==
  Returned =>
     /\ result.Keywords # EmptyStr => result.Status = "Success - Scopus"
     /\ result.Status \in {"Success - DOI", "Failed"} => result.Keywords = EmptyStr
     /\ result.Status = "Success - Scopus" =>
           result.Keywords = OrElse(extract_from_scopus(LastRow.Link)[2], EmptyStr)
     /\ result.Keywords \notin {None, NaN}

(* C17's case: the primary extraction found keywords but no abstract, the  *)
(* fallback gave the abstract, and the keywords are empty.                 *)
C17_Witness ==
  /\ Returned
  /\ PrimaryFindsKeywords(LastRow)
  /\ ~PrimaryYields(LastRow)
  /\ result.Status = "Success - DOI"
  /\ result.Keywords = EmptyStr

OncePerTier == { <<>>, <<"scopus">>, <<"doi">>, <<"scopus", "doi">> }

(* The steps of a run are in the order Loading, Resuming, Iterating,       *)
(* Finalizing (the output write, then the cleanup), Done, and the loop is  *)
(* not entered again; the loop starts at the resume index, handles the     *)
(* position i and goes on to i + 1, and is left at the end of the frame;   *)
(* handling a record invokes each extractor at most once.                  *)
RunInOrder ==
  /\ pc = "Loading" => pc' \in {"Resuming", "Aborted", "Killed"}
  /\ pc = "Resuming" => (pc' \in {"Iterating", "Finalizing", "Killed"} /\ i' \in {start_index', 0})
  /\ pc = "Iterating" => pc' \in {"Iterating", "Finalizing", "Killed"}
  /\ pc = "Finalizing" => pc' \in {"Cleanup", "Aborted", "Killed"}
  /\ pc = "Cleanup" => pc' \in {"Done", "Killed"}
  /\ pc \in {"Done", "Aborted", "Killed"} => pc' = "Loading"
  /\ pc' = "Iterating" => pc \in {"Resuming", "Iterating"}
  /\ (pc = "Resuming" /\ pc' # "Killed") =>
        (i' = start_index' /\ (pc' = "Iterating" <=> start_index' < df.n))
  /\ (pc = "Iterating" /\ pc' # "Killed") =>
        /\ i < df.n
        /\ i' = i + 1
        /\ start_index' = start_index
        /\ df' = df
        /\ result' = process_paper(RowAt(df, i + 1), firstRun)
        /\ result'.calls \in OncePerTier
        /\ pc' = "Finalizing" <=> i' = df.n

C19_ResumeIndexWithinProcessedPrefix ==
  (JustResumed /\ UniqueLinks(df)) =>
     /\ checkpoint.exists => start_index <= checkpoint.upto
     /\ ~checkpoint.exists => start_index = 0
     /\ i = start_index

(* C19's case: a restarted process whose resume index is below the prefix  *)
(* the checkpoint covers, so that it processes a processed record again.   *)
C19_Witness ==
  /\ JustResumed
  /\ UniqueLinks(df)
  /\ ~firstRun
  /\ checkpoint.exists
  /\ 0 < start_index
  /\ start_index < checkpoint.upto
  /\ Abstract[start_index + 1] # NaN

(* C20: an iteration at position i leaves the frame's rows and every       *)
(* Abstract and Keywords cell but those of position i as they are; the     *)
(* output step writes the frame's rows in the order of the source, each    *)
(* with the Abstract and Keywords it holds then; so, on a sheet with       *)
(* distinct Links, the rows below the resume index are in the output with  *)
(* the values of their checkpoint entries.                                 *)
C20_OnlyTheHandledRecordChanges ==
  [][ /\ (pc = "Iterating" /\ pc' # "Killed") =>
            /\ df' = df
            /\ \A p \in (1..df.n) \ {i + 1} :
                  Abstract'[p] = Abstract[p] /\ Keywords'[p] = Keywords[p]
      /\ (pc = "Finalizing" /\ pc' = "Cleanup") =>
            /\ output'.sheet = source
            /\ \A p \in 1..df.n :
                  /\ output'.Abstract[p] = ToExcel(Abstract[p])
                  /\ output'.Keywords[p] = ToExcel(Keywords[p])
            /\ (UniqueLinks(df) /\ start_index > 0) =>
                  /\ checkpoint.exists
                  /\ \A p \in 1..start_index :
                        /\ output'.Abstract[p] = ToExcel(FromCsv(checkpoint.Abstract[p]))
                        /\ output'.Keywords[p] = ToExcel(FromCsv(checkpoint.Keywords[p])) ]_vars

(* C20's case: a resumed process has written the output; the first row,    *)
(* below its resume index and not handled by it, is there with the         *)
(* abstract an earlier process extracted.                                  *)
C20_Witness ==
  /\ OutputWritten
  /\ ~firstRun
  /\ start_index > 1
  /\ i = df.n
  /\ output.sheet = source
  /\ output.Abstract[1] = <<"scopus_abs", 1>>
  /\ output.Abstract[df.n] # EmptyStr

====
